---- MODULE Spec2Model ----
(***************************************************************************)
(* Model of MemoryProtectionExceptionHandlerLib.c (CMOS variant): the      *)
(* library constructor, the protocol-notify callback that registers the    *)
(* page-fault handler with the CPU architectural protocol, and the         *)
(* page-fault handler that records "protections off" in CMOS and requests  *)
(* a warm reset.                                                           *)
(*                                                                         *)
(* The boot services, the CPU architectural protocol, the CMOS accessor    *)
(* and the reset service are collaborators: each call returns one of the   *)
(* outcomes its interface allows, chosen nondeterministically.             *)
(***************************************************************************)
EXTENDS Integers, Sequences, FiniteSets, TLC

\* ------------------------------------------------------------------ bounds
\* How many times an instance of the CPU architectural protocol is installed
\* (each installation signals the protocol-notify event).
MaxFirings == 2
\* How many page faults are dispatched in one boot session.
MaxFaults == 2

\* --------------------------------------------------------------- constants
\* Bits of the memory-protection CMOS byte (MemoryProtectionExceptionCommon.h).
CMOS_MEM_PROT_VALID_BIT_MASK == 128
CMOS_MEM_PROT_TOG_BIT_MASK == 1
\* The page-fault vector the handler is registered for.
EXCEPT_IA32_PAGE_FAULT == 14

\* Exception vectors the dispatcher may raise: page fault and a neighbour.
ExceptionTypes == {EXCEPT_IA32_PAGE_FAULT - 1, EXCEPT_IA32_PAGE_FAULT}
\* Page-fault error codes carried in SystemContextX64->ExceptionData.
ExceptionDataValues == {0, 2}
\* Values the CMOS byte may hold when the session starts.
CmosInitValues ==
    {0, CMOS_MEM_PROT_TOG_BIT_MASK, CMOS_MEM_PROT_VALID_BIT_MASK,
     CMOS_MEM_PROT_VALID_BIT_MASK + CMOS_MEM_PROT_TOG_BIT_MASK}

\* The externally visible steps of one handler invocation, in source order.
HandlerOrder == <<"record", "dump", "write", "notice", "reset">>

NoReset == [type |-> "none", status |-> "none", size |-> 0, data |-> "none"]
WarmReset ==
    [type |-> "EfiResetWarm", status |-> "EFI_SUCCESS", size |-> 0, data |-> "NULL"]

NoHandlers == [v \in ExceptionTypes |-> 0]

\* Diagnostics that report on registration (constructor and registrar).
RegistrationDiagnostics == {"CreateEventFailed", "LocateFailed", "RegisterFailed"}

\* ------------------------------------------------------------------- state
VARIABLES
    toggle,          \* what IsMemoryProtectionGlobalToggleEnabled() returns now
    cmos,            \* the memory-protection CMOS byte
    session,         \* "running" | "reset" | "crashed"
    diag,            \* set of diagnostics emitted so far
    \* constructor
    ctorPc,          \* "start" | "create" | "notify" | "ret" | "done"
    ctorStatus,      \* local Status
    event,           \* local CpuArchExHandlerCallBackEvent: "uninit" | "valid"
    toggleSeen,      \* "unread" | "on" | "off": value read at line 104
    toggleReads,     \* number of reads of the toggle
    ctorRet,         \* value returned to the loader, "none" until it returns
    notifyCalls,     \* RegisterProtocolNotify calls made
    subscribed,      \* what the boot services hold: "none" | "valid" | "garbage"
    \* dispatch subsystem and notification
    cpuInstalls,     \* installations of the CPU architectural protocol
    regPending,      \* the notify event is signalled and not yet dispatched
    \* registrar
    regPc,           \* "idle" | "register"
    regStatus,       \* local Status
    mCpu,            \* "NULL" | "cpu"
    handlers,        \* per vector: successful registrations of the handler
    regRuns,         \* runs of the registrar
    locateCalls, locateOk,
    regCalls, regCallsAfterInstall,
    attemptFailed,   \* some locate or register attempt has failed
    callsAfterFailure,
    \* fault handler
    hPc,             \* "idle" | "record" | "dump" | "write" | "notice" | "reset" | "halted"
    hType, hData,    \* InterruptType, ExceptionData of the current invocation
    hTrace,          \* visible steps of the current invocation
    lastRecord,      \* content of the last diagnostic record
    faults,          \* handler invocations
    writes,          \* CMOS writes
    lastWrite,       \* the byte last passed to the CMOS accessor (-1 before)
    cmosAfterFirst,  \* the CMOS byte right after the first write (-1 before)
    resetCalls, resetArgs,
    handlerReturns,  \* times the handler returned to its caller
    recordLog,       \* per invocation: the content of its diagnostic record
    writeLog,        \* per invocation: the byte it passed to the CMOS accessor
    resetLog         \* per invocation: the arguments it passed to ResetSystem

envVars == <<toggle, cmos, session, diag>>
ctorVars == <<ctorPc, ctorStatus, event, toggleSeen, toggleReads, ctorRet,
              notifyCalls, subscribed>>
notifyVars == <<cpuInstalls, regPending>>
regVars == <<regPc, regStatus, mCpu, handlers, regRuns, locateCalls, locateOk,
             regCalls, regCallsAfterInstall, attemptFailed, callsAfterFailure>>
handlerVars == <<hPc, hType, hData, hTrace, lastRecord, faults, writes,
                 lastWrite, cmosAfterFirst, resetCalls, resetArgs, handlerReturns,
                 recordLog, writeLog, resetLog>>
vars == <<envVars, ctorVars, notifyVars, regVars, handlerVars>>

Init ==
    /\ toggle \in BOOLEAN
    /\ cmos \in CmosInitValues
    /\ session = "running"
    /\ diag = {}
    /\ ctorPc = "start"
    /\ ctorStatus = "EFI_SUCCESS"
    /\ event = "uninit"
    /\ toggleSeen = "unread"
    /\ toggleReads = 0
    /\ ctorRet = "none"
    /\ notifyCalls = 0
    /\ subscribed = "none"
    /\ cpuInstalls = 0
    /\ regPending = FALSE
    /\ regPc = "idle"
    /\ regStatus = "EFI_SUCCESS"
    /\ mCpu = "NULL"
    /\ handlers = NoHandlers
    /\ regRuns = 0
    /\ locateCalls = 0
    /\ locateOk = 0
    /\ regCalls = 0
    /\ regCallsAfterInstall = 0
    /\ attemptFailed = FALSE
    /\ callsAfterFailure = 0
    /\ hPc = "idle"
    /\ hType = 0
    /\ hData = 0
    /\ hTrace = <<>>
    /\ lastRecord = [type |-> 0, data |-> 0]
    /\ faults = 0
    /\ writes = 0
    /\ lastWrite = -1
    /\ cmosAfterFirst = -1
    /\ resetCalls = 0
    /\ resetArgs = NoReset
    /\ handlerReturns = 0
    /\ recordLog = <<>>
    /\ writeLog = <<>>
    /\ resetLog = <<>>

\* Normal (non-interrupt) code runs only while no fault handler is executing.
MainRuns == session = "running" /\ hPc = "idle"

\* ------------------------------------------------------------- constructor
\* Faulty variant: the toggle is read but the early return is missing.
CtorReadToggleNoReturn ==
    /\ MainRuns /\ ctorPc = "start"
    /\ toggleSeen' = (IF toggle THEN "on" ELSE "off")
    /\ toggleReads' = toggleReads + 1
    /\ ctorPc' = "create"
    /\ UNCHANGED <<ctorStatus, event, ctorRet, notifyCalls, subscribed>>
    /\ UNCHANGED <<envVars, notifyVars, regVars, handlerVars>>

\* Faulty variant: the constructor clears the CMOS byte when it starts.
CtorReadToggleClearsFlag ==
    /\ MainRuns /\ ctorPc = "start"
    /\ toggleSeen' = (IF toggle THEN "on" ELSE "off")
    /\ toggleReads' = toggleReads + 1
    /\ cmos' = 0
    /\ IF toggle
         THEN ctorPc' = "create" /\ ctorRet' = ctorRet
         ELSE ctorPc' = "done" /\ ctorRet' = "EFI_SUCCESS"
    /\ UNCHANGED <<ctorStatus, event, notifyCalls, subscribed>>
    /\ UNCHANGED <<toggle, session, diag>>
    /\ UNCHANGED <<notifyVars, regVars, handlerVars>>

\* Lines 103-106: read the global toggle; return EFI_SUCCESS if it is off.
CtorReadToggle ==
    /\ MainRuns /\ ctorPc = "start"
    /\ toggleSeen' = (IF toggle THEN "on" ELSE "off")
    /\ toggleReads' = toggleReads + 1
    /\ IF toggle
         THEN ctorPc' = "create" /\ ctorRet' = ctorRet
         ELSE ctorPc' = "done" /\ ctorRet' = "EFI_SUCCESS"
    /\ UNCHANGED <<ctorStatus, event, notifyCalls, subscribed>>
    /\ UNCHANGED <<envVars, notifyVars, regVars, handlerVars>>

\* Lines 108-117: CreateEvent; a failure is only diagnosed and the event
\* variable keeps its uninitialized value.
CtorCreateEvent ==
    /\ MainRuns /\ ctorPc = "create"
    /\ \E st \in {"EFI_SUCCESS", "EFI_OUT_OF_RESOURCES"} :
         /\ ctorStatus' = st
         /\ event' = (IF st = "EFI_SUCCESS" THEN "valid" ELSE event)
         /\ diag' = (IF st = "EFI_SUCCESS" THEN diag
                     ELSE diag \cup {"CreateEventFailed"})
    /\ ctorPc' = "notify"
    /\ UNCHANGED <<toggleSeen, toggleReads, ctorRet, notifyCalls, subscribed>>
    /\ UNCHANGED <<toggle, cmos, session>>
    /\ UNCHANGED <<notifyVars, regVars, handlerVars>>

\* Lines 119-124: RegisterProtocolNotify, its status discarded.  With a
\* created event the boot services accept or refuse the subscription; with an
\* uninitialized event variable they refuse it or record the garbage value.
CtorRegisterProtocolNotify ==
    /\ MainRuns /\ ctorPc = "notify"
    /\ notifyCalls' = notifyCalls + 1
    /\ \E accepted \in BOOLEAN :
         subscribed' = (IF ~accepted THEN "none"
                        ELSE IF event = "valid" THEN "valid" ELSE "garbage")
    /\ ctorPc' = "ret"
    /\ UNCHANGED <<ctorStatus, event, toggleSeen, toggleReads, ctorRet>>
    /\ UNCHANGED <<envVars, notifyVars, regVars, handlerVars>>

\* Faulty variant: the constructor propagates its last Status.
CtorReturnStatus ==
    /\ MainRuns /\ ctorPc = "ret"
    /\ ctorRet' = ctorStatus
    /\ ctorPc' = "done"
    /\ UNCHANGED <<ctorStatus, event, toggleSeen, toggleReads, notifyCalls, subscribed>>
    /\ UNCHANGED <<envVars, notifyVars, regVars, handlerVars>>

\* Line 126: return EFI_SUCCESS.
CtorReturn ==
    /\ MainRuns /\ ctorPc = "ret"
    /\ ctorRet' = "EFI_SUCCESS"
    /\ ctorPc' = "done"
    /\ UNCHANGED <<ctorStatus, event, toggleSeen, toggleReads, notifyCalls, subscribed>>
    /\ UNCHANGED <<envVars, notifyVars, regVars, handlerVars>>

\* ------------------------------------------------- collaborators' stimuli
\* The global toggle is external state and may change at any time.
ToggleChange ==
    /\ MainRuns
    /\ toggle' = ~toggle
    /\ UNCHANGED <<cmos, session, diag>>
    /\ UNCHANGED <<ctorVars, notifyVars, regVars, handlerVars>>

\* An instance of gEfiCpuArchProtocolGuid is installed: the boot services
\* signal every event subscribed for it.  A recorded garbage event is not the
\* event of the registrar: signalling it is ignored or brings the system down.
CpuArchProtocolInstalled ==
    /\ MainRuns
    /\ ctorPc \in {"start", "done"}
    /\ regPc = "idle"
    /\ cpuInstalls < MaxFirings
    /\ cpuInstalls' = cpuInstalls + 1
    /\ regPending' = (regPending \/ subscribed = "valid")
    /\ \E crash \in BOOLEAN :
         session' = (IF subscribed = "garbage" /\ crash THEN "crashed" ELSE session)
    /\ UNCHANGED <<toggle, cmos, diag>>
    /\ UNCHANGED <<ctorVars, regVars, handlerVars>>

\* ---------------------------------------------------------------- registrar
\* Faulty variant: the return after a failed locate is missing.
RegLocateNoReturn ==
    /\ MainRuns /\ regPc = "idle" /\ regPending
    /\ regPending' = FALSE
    /\ regRuns' = regRuns + 1
    /\ locateCalls' = locateCalls + 1
    /\ callsAfterFailure' = callsAfterFailure + (IF attemptFailed THEN 1 ELSE 0)
    /\ \E found \in (IF cpuInstalls > 0 THEN BOOLEAN ELSE {FALSE}) :
         IF found
           THEN /\ regStatus' = "EFI_SUCCESS"
                /\ mCpu' = "cpu"
                /\ locateOk' = locateOk + 1
                /\ UNCHANGED <<diag, attemptFailed>>
           ELSE /\ regStatus' = "EFI_NOT_FOUND"
                /\ mCpu' = "NULL"
                /\ diag' = diag \cup {"LocateFailed"}
                /\ attemptFailed' = TRUE
                /\ UNCHANGED locateOk
    /\ regPc' = "register"
    /\ UNCHANGED <<handlers, regCalls, regCallsAfterInstall, cpuInstalls>>
    /\ UNCHANGED <<toggle, cmos, session>>
    /\ UNCHANGED <<ctorVars, handlerVars>>

\* Faulty variant: the notify function reads the global toggle again and
\* returns when it is off.
RegLocateReadsToggle ==
    /\ MainRuns /\ regPc = "idle" /\ regPending
    /\ regPending' = FALSE
    /\ regRuns' = regRuns + 1
    /\ toggleReads' = toggleReads + 1
    /\ IF ~toggle
         THEN UNCHANGED <<regPc, regStatus, mCpu, locateCalls, locateOk,
                          attemptFailed, callsAfterFailure, diag>>
         ELSE /\ locateCalls' = locateCalls + 1
              /\ callsAfterFailure' =
                   callsAfterFailure + (IF attemptFailed THEN 1 ELSE 0)
              /\ \E found \in (IF cpuInstalls > 0 THEN BOOLEAN ELSE {FALSE}) :
                   IF found
                     THEN /\ regStatus' = "EFI_SUCCESS"
                          /\ mCpu' = "cpu"
                          /\ locateOk' = locateOk + 1
                          /\ regPc' = "register"
                          /\ UNCHANGED <<diag, attemptFailed>>
                     ELSE /\ regStatus' = "EFI_NOT_FOUND"
                          /\ mCpu' = "NULL"
                          /\ diag' = diag \cup {"LocateFailed"}
                          /\ attemptFailed' = TRUE
                          /\ regPc' = "idle"
                          /\ UNCHANGED locateOk
    /\ UNCHANGED <<handlers, regCalls, regCallsAfterInstall, cpuInstalls>>
    /\ UNCHANGED <<toggle, cmos, session>>
    /\ UNCHANGED <<ctorPc, ctorStatus, event, toggleSeen, ctorRet, notifyCalls,
                   subscribed>>
    /\ UNCHANGED handlerVars

\* Lines 56-71: the notify function starts; LocateProtocol into mCpu; on
\* failure a diagnostic and return.
RegLocate ==
    /\ MainRuns /\ regPc = "idle" /\ regPending
    /\ regPending' = FALSE
    /\ regRuns' = regRuns + 1
    /\ locateCalls' = locateCalls + 1
    /\ callsAfterFailure' = callsAfterFailure + (IF attemptFailed THEN 1 ELSE 0)
    /\ \E found \in (IF cpuInstalls > 0 THEN BOOLEAN ELSE {FALSE}) :
         IF found
           THEN /\ regStatus' = "EFI_SUCCESS"
                /\ mCpu' = "cpu"
                /\ locateOk' = locateOk + 1
                /\ regPc' = "register"
                /\ UNCHANGED <<diag, attemptFailed>>
           ELSE /\ regStatus' = "EFI_NOT_FOUND"
                /\ mCpu' = "NULL"
                /\ diag' = diag \cup {"LocateFailed"}
                /\ attemptFailed' = TRUE
                /\ regPc' = "idle"
                /\ UNCHANGED locateOk
    /\ UNCHANGED <<handlers, regCalls, regCallsAfterInstall, cpuInstalls>>
    /\ UNCHANGED <<toggle, cmos, session>>
    /\ UNCHANGED <<ctorVars, handlerVars>>

\* Faulty variant: the handler is registered for the wrong status branch, i.e. it
\* counts as installed even when RegisterInterruptHandler failed.
RegRegisterIgnoresStatus ==
    /\ MainRuns /\ regPc = "register"
    /\ regCalls' = regCalls + 1
    /\ regCallsAfterInstall' =
         regCallsAfterInstall + (IF handlers[EXCEPT_IA32_PAGE_FAULT] > 0 THEN 1 ELSE 0)
    /\ callsAfterFailure' = callsAfterFailure + (IF attemptFailed THEN 1 ELSE 0)
    /\ \E st \in {"EFI_SUCCESS", "EFI_ALREADY_STARTED"} :
         /\ regStatus' = st
         /\ handlers' = [handlers EXCEPT ![EXCEPT_IA32_PAGE_FAULT] = @ + 1]
         /\ IF st = "EFI_SUCCESS"
              THEN UNCHANGED <<diag, attemptFailed>>
              ELSE /\ diag' = diag \cup {"RegisterFailed"}
                   /\ attemptFailed' = TRUE
    /\ regPc' = "idle"
    /\ UNCHANGED <<mCpu, regRuns, locateCalls, locateOk>>
    /\ UNCHANGED <<toggle, cmos, session>>
    /\ UNCHANGED <<ctorVars, notifyVars, handlerVars>>

\* Faulty variant: the handler is registered for the neighbouring vector.
RegRegisterWrongVector ==
    /\ MainRuns /\ regPc = "register"
    /\ regCalls' = regCalls + 1
    /\ regCallsAfterInstall' =
         regCallsAfterInstall + (IF handlers[EXCEPT_IA32_PAGE_FAULT] > 0 THEN 1 ELSE 0)
    /\ callsAfterFailure' = callsAfterFailure + (IF attemptFailed THEN 1 ELSE 0)
    /\ \E st \in {"EFI_SUCCESS", "EFI_ALREADY_STARTED"} :
         /\ regStatus' = st
         /\ IF st = "EFI_SUCCESS"
              THEN /\ handlers' = [handlers EXCEPT ![EXCEPT_IA32_PAGE_FAULT - 1] = @ + 1]
                   /\ UNCHANGED <<diag, attemptFailed>>
              ELSE /\ diag' = diag \cup {"RegisterFailed"}
                   /\ attemptFailed' = TRUE
                   /\ UNCHANGED handlers
    /\ regPc' = "idle"
    /\ UNCHANGED <<mCpu, regRuns, locateCalls, locateOk>>
    /\ UNCHANGED <<toggle, cmos, session>>
    /\ UNCHANGED <<ctorVars, notifyVars, handlerVars>>

\* Lines 73-81: mCpu->RegisterInterruptHandler for the page-fault vector; a
\* failure is only diagnosed; return.
RegRegister ==
    /\ MainRuns /\ regPc = "register"
    /\ regCalls' = regCalls + 1
    /\ regCallsAfterInstall' =
         regCallsAfterInstall + (IF handlers[EXCEPT_IA32_PAGE_FAULT] > 0 THEN 1 ELSE 0)
    /\ callsAfterFailure' = callsAfterFailure + (IF attemptFailed THEN 1 ELSE 0)
    /\ \E st \in {"EFI_SUCCESS", "EFI_ALREADY_STARTED"} :
         /\ regStatus' = st
         /\ IF st = "EFI_SUCCESS"
              THEN /\ handlers' = [handlers EXCEPT ![EXCEPT_IA32_PAGE_FAULT] = @ + 1]
                   /\ UNCHANGED <<diag, attemptFailed>>
              ELSE /\ diag' = diag \cup {"RegisterFailed"}
                   /\ attemptFailed' = TRUE
                   /\ UNCHANGED handlers
    /\ regPc' = "idle"
    /\ UNCHANGED <<mCpu, regRuns, locateCalls, locateOk>>
    /\ UNCHANGED <<toggle, cmos, session>>
    /\ UNCHANGED <<ctorVars, notifyVars, handlerVars>>

\* ------------------------------------------------------------ fault handler
\* Faulty variant: the wrong mask is written.
valToggleMask == CMOS_MEM_PROT_TOG_BIT_MASK

\* The byte the handler writes (line 36).
val == CMOS_MEM_PROT_VALID_BIT_MASK

\* CmosWriteMemoryProtectionByte: the CMOS byte becomes the value written.
CmosWriteMemoryProtectionByte(old, v) == v % 256

\* The interrupt-dispatch subsystem invokes the callback registered for the
\* vector of the exception that occurred.  The handler runs by preemption of
\* whatever was running, and is not re-entered while it runs.
PageFault ==
    /\ session = "running" /\ hPc = "idle"
    /\ faults < MaxFaults
    /\ \E v \in ExceptionTypes, d \in ExceptionDataValues :
         /\ handlers[v] > 0
         /\ hType' = v
         /\ hData' = d
    /\ hPc' = "record"
    /\ hTrace' = <<>>
    /\ faults' = faults + 1
    /\ UNCHANGED <<lastRecord, writes, lastWrite, cmosAfterFirst, resetCalls, resetArgs,
                   handlerReturns>>
    /\ UNCHANGED <<envVars, ctorVars, notifyVars, regVars>>
    /\ UNCHANGED <<recordLog, writeLog, resetLog>>

\* Line 38: DEBUG_ERROR record with ExceptionData and InterruptType.
HandlerRecord ==
    /\ session = "running" /\ hPc = "record"
    /\ diag' = diag \cup {"HandlerRecord"}
    /\ lastRecord' = [type |-> hType, data |-> hData]
    /\ hTrace' = Append(hTrace, "record")
    /\ hPc' = "dump"
    /\ UNCHANGED <<hType, hData, faults, writes, lastWrite, cmosAfterFirst, resetCalls,
                   resetArgs, handlerReturns>>
    /\ UNCHANGED <<toggle, cmos, session>>
    /\ UNCHANGED <<ctorVars, notifyVars, regVars>>
    /\ recordLog' = Append(recordLog, [type |-> hType, data |-> hData])
    /\ UNCHANGED <<writeLog, resetLog>>

\* Line 40: DumpCpuContext.
HandlerDump ==
    /\ session = "running" /\ hPc = "dump"
    /\ hTrace' = Append(hTrace, "dump")
    /\ hPc' = "write"
    /\ UNCHANGED <<hType, hData, lastRecord, faults, writes, lastWrite,
                   cmosAfterFirst,
                   resetCalls, resetArgs, handlerReturns>>
    /\ UNCHANGED <<envVars, ctorVars, notifyVars, regVars>>
    /\ UNCHANGED <<recordLog, writeLog, resetLog>>

\* Faulty variant: the CMOS write is left out.
HandlerWriteSkipped ==
    /\ session = "running" /\ hPc = "write"
    /\ hPc' = "notice"
    /\ UNCHANGED <<hType, hData, hTrace, lastRecord, faults, writes, lastWrite,
                   cmosAfterFirst, resetCalls, resetArgs, handlerReturns>>
    /\ UNCHANGED <<envVars, ctorVars, notifyVars, regVars>>
    /\ UNCHANGED <<recordLog, writeLog, resetLog>>

\* Faulty variant: the handler flips the bit in the stored byte instead of
\* storing a fixed pattern.
HandlerWriteToggles ==
    /\ session = "running" /\ hPc = "write"
    /\ lastWrite' = (IF cmos >= val THEN cmos - val ELSE cmos + val)
    /\ cmos' = CmosWriteMemoryProtectionByte(cmos, lastWrite')
    /\ writes' = writes + 1
    /\ cmosAfterFirst' = (IF writes = 0 THEN cmos' ELSE cmosAfterFirst)
    /\ hTrace' = Append(hTrace, "write")
    /\ hPc' = "notice"
    /\ UNCHANGED <<hType, hData, lastRecord, faults, resetCalls, resetArgs,
                   handlerReturns>>
    /\ UNCHANGED <<toggle, session, diag>>
    /\ UNCHANGED <<ctorVars, notifyVars, regVars>>
    /\ writeLog' = Append(writeLog, lastWrite')
    /\ UNCHANGED <<recordLog, resetLog>>

\* Faulty variant: the byte written depends on the page-fault error code.
HandlerWriteByErrorCode ==
    /\ session = "running" /\ hPc = "write"
    /\ lastWrite' = (IF hData = 0 THEN val ELSE val + CMOS_MEM_PROT_TOG_BIT_MASK)
    /\ cmos' = CmosWriteMemoryProtectionByte(cmos, lastWrite')
    /\ writes' = writes + 1
    /\ cmosAfterFirst' = (IF writes = 0 THEN cmos' ELSE cmosAfterFirst)
    /\ hTrace' = Append(hTrace, "write")
    /\ hPc' = "notice"
    /\ UNCHANGED <<hType, hData, lastRecord, faults, resetCalls, resetArgs,
                   handlerReturns>>
    /\ UNCHANGED <<toggle, session, diag>>
    /\ UNCHANGED <<ctorVars, notifyVars, regVars>>
    /\ writeLog' = Append(writeLog, lastWrite')
    /\ UNCHANGED <<recordLog, resetLog>>

\* Line 42: CmosWriteMemoryProtectionByte(val).
HandlerWrite ==
    /\ session = "running" /\ hPc = "write"
    /\ lastWrite' = val
    /\ cmos' = CmosWriteMemoryProtectionByte(cmos, val)
    /\ writes' = writes + 1
    /\ cmosAfterFirst' = (IF writes = 0 THEN cmos' ELSE cmosAfterFirst)
    /\ hTrace' = Append(hTrace, "write")
    /\ hPc' = "notice"
    /\ UNCHANGED <<hType, hData, lastRecord, faults, resetCalls, resetArgs,
                   handlerReturns>>
    /\ UNCHANGED <<toggle, session, diag>>
    /\ UNCHANGED <<ctorVars, notifyVars, regVars>>
    /\ writeLog' = Append(writeLog, val)
    /\ UNCHANGED <<recordLog, resetLog>>

\* Line 44: DEBUG_INFO "Resetting...".
HandlerNotice ==
    /\ session = "running" /\ hPc = "notice"
    /\ diag' = diag \cup {"Resetting"}
    /\ hTrace' = Append(hTrace, "notice")
    /\ hPc' = "reset"
    /\ UNCHANGED <<hType, hData, lastRecord, faults, writes, lastWrite,
                   cmosAfterFirst,
                   resetCalls, resetArgs, handlerReturns>>
    /\ UNCHANGED <<toggle, cmos, session>>
    /\ UNCHANGED <<ctorVars, notifyVars, regVars>>
    /\ UNCHANGED <<recordLog, writeLog, resetLog>>

\* Faulty variant: when ResetSystem returns, the handler takes the flag back.
HandlerResetRollsBack ==
    /\ session = "running" /\ hPc = "reset"
    /\ resetCalls' = resetCalls + 1
    /\ resetArgs' = WarmReset
    /\ hTrace' = Append(hTrace, "reset")
    /\ \E honoured \in BOOLEAN :
         IF honoured
           THEN /\ session' = "reset"
                /\ hPc' = "halted"
                /\ cmos' = cmos
                /\ UNCHANGED handlerReturns
           ELSE /\ session' = session
                /\ hPc' = "idle"
                /\ cmos' = CmosWriteMemoryProtectionByte(cmos, 0)
                /\ handlerReturns' = handlerReturns + 1
    /\ UNCHANGED <<hType, hData, lastRecord, faults, writes, lastWrite,
                   cmosAfterFirst>>
    /\ UNCHANGED <<toggle, diag>>
    /\ UNCHANGED <<ctorVars, notifyVars, regVars>>
    /\ resetLog' = Append(resetLog, WarmReset)
    /\ UNCHANGED <<recordLog, writeLog>>

\* Lines 46-47: gRT->ResetSystem (EfiResetWarm, EFI_SUCCESS, 0, NULL).  The
\* reset service either resets the platform, which ends the session, or does
\* not act and returns; nothing follows the call, so the handler then returns
\* to the dispatcher, which resumes the interrupted code.
HandlerReset ==
    /\ session = "running" /\ hPc = "reset"
    /\ resetCalls' = resetCalls + 1
    /\ resetArgs' = WarmReset
    /\ hTrace' = Append(hTrace, "reset")
    /\ \E honoured \in BOOLEAN :
         IF honoured
           THEN /\ session' = "reset"
                /\ hPc' = "halted"
                /\ UNCHANGED handlerReturns
           ELSE /\ session' = session
                /\ hPc' = "idle"
                /\ handlerReturns' = handlerReturns + 1
    /\ UNCHANGED <<hType, hData, lastRecord, faults, writes, lastWrite,
                   cmosAfterFirst>>
    /\ UNCHANGED <<toggle, cmos, diag>>
    /\ UNCHANGED <<ctorVars, notifyVars, regVars>>
    /\ resetLog' = Append(resetLog, WarmReset)
    /\ UNCHANGED <<recordLog, writeLog>>

\* ------------------------------------------------------------ specification
Next ==
    \/ CtorReadToggle
    \/ CtorCreateEvent
    \/ CtorRegisterProtocolNotify
    \/ CtorReturn
    \/ ToggleChange
    \/ CpuArchProtocolInstalled
    \/ RegLocate
    \/ RegRegister
    \/ PageFault
    \/ HandlerRecord
    \/ HandlerDump
    \/ HandlerWrite
    \/ HandlerNotice
    \/ HandlerReset

Spec == Init /\ [][Next]_vars

\* The notify function is queued at TPL_CALLBACK when the event is signalled
\* and the boot services dispatch it as soon as the task priority allows;
\* once started it runs to its return.
FairSpec == Spec /\ WF_vars(RegLocate) /\ WF_vars(RegRegister)

TypeOK ==
    /\ toggle \in BOOLEAN
    /\ cmos \in 0..255
    /\ session \in {"running", "reset", "crashed"}
    /\ diag \subseteq (RegistrationDiagnostics \cup {"HandlerRecord", "Resetting"})
    /\ ctorPc \in {"start", "create", "notify", "ret", "done"}
    /\ event \in {"uninit", "valid"}
    /\ toggleSeen \in {"unread", "on", "off"}
    /\ subscribed \in {"none", "valid", "garbage"}
    /\ cpuInstalls \in 0..MaxFirings
    /\ regPending \in BOOLEAN
    /\ regPc \in {"idle", "register"}
    /\ mCpu \in {"NULL", "cpu"}
    /\ handlers \in [ExceptionTypes -> Nat]
    /\ hPc \in {"idle", "record", "dump", "write", "notice", "reset", "halted"}
    /\ faults \in 0..MaxFaults
    /\ writes \in 0..MaxFaults
    /\ resetCalls \in 0..MaxFaults

\* ------------------------------------------------------------------ claims
IsPrefix(s, t) == Len(s) <= Len(t) /\ \A i \in 1..Len(s) : s[i] = t[i]

\* Number of visible steps the handler has made when it stands at pc.
StepsDoneAt(pc) ==
    CASE pc = "record" -> 0
      [] pc = "dump" -> 1
      [] pc = "write" -> 2
      [] pc = "notice" -> 3
      [] pc = "reset" -> 4
      [] OTHER -> 5

\* C1: in every invocation of the fault handler the visible steps occur in the
\* order record, context dump, CMOS write, "resetting" notice, reset (warm,
\* success, no data); reset is never requested before the CMOS write of the
\* same invocation has been made.
C1_HandlerStepsInOrder ==
    /\ IsPrefix(hTrace, HandlerOrder)
    /\ (faults > 0 => Len(hTrace) = StepsDoneAt(hPc))
    /\ (faults > 0 /\ hPc \in {"idle", "halted"} => hTrace = HandlerOrder)
    /\ resetCalls <= writes
    /\ (resetCalls > 0 => resetArgs = WarmReset)
    /\ (hPc \in {"record", "dump", "write"} => writes = faults - 1 /\ resetCalls = faults - 1)
    /\ (hPc \in {"notice", "reset"} => writes = faults /\ resetCalls = faults - 1)

C1_Witness ==
    /\ hPc = "halted"
    /\ hTrace = HandlerOrder
    /\ hType = EXCEPT_IA32_PAGE_FAULT
    /\ hData = 2

\* C2: if the toggle read false at initialization, then no event is created or
\* subscribed, the registrar never runs, no locate or register call is made,
\* the handler is never installed or invoked, and no registration diagnostic
\* is emitted.
C2_ToggleOffInert ==
    toggleSeen = "off" =>
        /\ event = "uninit"
        /\ notifyCalls = 0
        /\ subscribed = "none"
        /\ ~regPending
        /\ regRuns = 0
        /\ locateCalls = 0
        /\ regCalls = 0
        /\ mCpu = "NULL"
        /\ handlers = NoHandlers
        /\ faults = 0
        /\ hPc = "idle"
        /\ writes = 0
        /\ resetCalls = 0
        /\ diag = {}

C2_Witness ==
    /\ toggleSeen = "off"
    /\ ctorPc = "done"
    /\ cpuInstalls > 0
    /\ toggle

\* C3: with the toggle enabled, as long as the CPU architectural protocol has
\* not been located successfully (in particular if it never appears), the
\* handler is not installed, the CMOS byte is not written and reset is not
\* requested.
C3_NoLocateNoHandler ==
    (toggleSeen = "on" /\ locateOk = 0) =>
        /\ handlers = NoHandlers
        /\ regCalls = 0
        /\ faults = 0
        /\ writes = 0
        /\ resetCalls = 0
        /\ session # "reset"
        /\ (cpuInstalls = 0 => regRuns = 0 /\ locateCalls = 0)

C3_Witness ==
    /\ toggleSeen = "on"
    /\ ctorPc = "done"
    /\ subscribed = "valid"
    /\ locateCalls > 0
    /\ locateOk = 0
    /\ regPc = "idle"
    /\ "LocateFailed" \in diag

\* C4 (as stated): once registration has succeeded, a further firing of the
\* notification issues no further registration call, and the handler is
\* installed at most once.
C4_RegistrationIssuedOnce ==
    /\ regCallsAfterInstall = 0
    /\ handlers[EXCEPT_IA32_PAGE_FAULT] <= 1

\* C5 (as stated): the fault handler never returns to its caller, whatever
\* the reset service does.
C5_HandlerNeverReturns == handlerReturns = 0

C7_CtorAlwaysSuccess ==
    /\ ctorRet \in {"none", "EFI_SUCCESS"}
    /\ (ctorPc = "done" => ctorRet = "EFI_SUCCESS")

C7_Witness ==
    /\ ctorPc = "done"
    /\ ctorStatus = "EFI_OUT_OF_RESOURCES"
    /\ "CreateEventFailed" \in diag
    /\ subscribed = "none"

C9_RegistrarFailuresAbsorbed ==
    [][ /\ (locateCalls' > locateCalls /\ regStatus' # "EFI_SUCCESS") =>
              /\ regPc' = "idle"
              /\ regCalls' = regCalls
              /\ handlers' = handlers
              /\ "LocateFailed" \in diag'
        /\ (regCalls' > regCalls /\ regStatus' # "EFI_SUCCESS") =>
              /\ regPc' = "idle"
              /\ handlers' = handlers
              /\ (regCalls = 0 => handlers' = NoHandlers)
              /\ "RegisterFailed" \in diag'
        /\ (regCalls' > regCalls => mCpu = "cpu")
        /\ (locateCalls' > locateCalls \/ regCalls' > regCalls) =>
              /\ cmos' = cmos
              /\ writes' = writes
              /\ resetCalls' = resetCalls
              /\ resetArgs' = resetArgs
              /\ session' = session
      ]_vars

C9_Witness ==
    /\ "LocateFailed" \in diag
    /\ "RegisterFailed" \in diag
    /\ handlers = NoHandlers
    /\ regPc = "idle"

\* C10 (as stated): after a locate or register attempt has failed, no later
\* locate or register call is made in the session, however often the
\* notification fires.
C10_NoCallAfterFailure == callsAfterFailure = 0

\* C11: registration is deferred: no step of the constructor calls locate or
\* register; a register call is made only once the CPU architectural protocol
\* is available and located; a successful register call installs the handler
\* for the page-fault vector and no other; and once the notification has fired
\* for the first time the registrar eventually either installs the handler or
\* reports a failed locate or register call.
C11_DeferredRegistration ==
    /\ [][ /\ (ctorPc' # ctorPc) =>
                 /\ locateCalls' = locateCalls
                 /\ regCalls' = regCalls
                 /\ mCpu' = mCpu
                 /\ handlers' = handlers
           /\ (locateCalls' > locateCalls) => (ctorPc = "done" /\ subscribed = "valid")
           /\ (regCalls' > regCalls) => (cpuInstalls > 0 /\ mCpu = "cpu")
           /\ (regCalls' > regCalls /\ regStatus' = "EFI_SUCCESS") =>
                 handlers' = [handlers EXCEPT ![EXCEPT_IA32_PAGE_FAULT] = @ + 1]
         ]_vars
    /\ [](\A v \in ExceptionTypes : v # EXCEPT_IA32_PAGE_FAULT => handlers[v] = 0)
    /\ ((regPending /\ locateCalls = 0) ~>
           (handlers[EXCEPT_IA32_PAGE_FAULT] > 0 \/ attemptFailed))

C11_Witness ==
    /\ toggleSeen = "on"
    /\ ctorPc = "done"
    /\ subscribed = "valid"
    /\ regRuns = 1
    /\ ~attemptFailed
    /\ handlers[EXCEPT_IA32_PAGE_FAULT] = 1
    /\ handlers[EXCEPT_IA32_PAGE_FAULT - 1] = 0

\* C12 (as stated): once the handler has written the flag and requested
\* reset there is no second invocation, no second flag write and no second
\* reset request in the session.
C12_FaultedIsTerminal ==
    /\ faults <= 1
    /\ writes <= 1
    /\ resetCalls <= 1

\* Whether the validity bit of byte b is set.
ValidBitSet(b) == (b \div CMOS_MEM_PROT_VALID_BIT_MASK) % 2 = 1

\* C13: no operation of the library clears the flag: once the handler has
\* written it, the byte keeps the written value, with the validity bit set, in
\* every later state; the CMOS byte changes only in the handler's write step.
C13_FlagNeverCleared ==
    /\ [](writes >= 1 => (cmos = lastWrite /\ ValidBitSet(cmos)))
    /\ [][cmos' # cmos => (hPc = "write" /\ hPc' = "notice" /\ ValidBitSet(cmos'))]_vars

C13_Witness ==
    /\ writes = 1
    /\ handlerReturns = 1
    /\ hPc = "idle"
    /\ regRuns = 2
    /\ "RegisterFailed" \in diag
    /\ ValidBitSet(cmos)

\* C14: every step of the constructor and of the registrar, on every path,
\* leaves the CMOS byte, the reset state and the handler's state unchanged.
C14_RegistrationFrame ==
    [][ (ctorPc' # ctorPc \/ regRuns' # regRuns \/ regCalls' # regCalls) =>
            /\ cmos' = cmos
            /\ session' = session
            /\ toggle' = toggle
            /\ UNCHANGED handlerVars
      ]_vars

C14_Witness ==
    /\ ctorPc = "done"
    /\ "LocateFailed" \in diag
    /\ handlers[EXCEPT_IA32_PAGE_FAULT] = 1
    /\ regPc = "idle"
    /\ cmos = CMOS_MEM_PROT_TOG_BIT_MASK
    /\ writes = 0
    /\ resetCalls = 0

\* C15: the global toggle is read exactly once, by the first step of the
\* constructor; the registrar and the handler never read it; a change of the
\* toggle after that read changes nothing else, and whether anything is
\* subscribed, registered or handled follows the value read.
C15_ToggleReadOnce ==
    /\ [](/\ toggleReads = (IF ctorPc = "start" THEN 0 ELSE 1)
          /\ (toggleSeen = "unread" <=> ctorPc = "start")
          /\ (notifyCalls > 0 \/ regRuns > 0 \/ handlers # NoHandlers \/ faults > 0)
                => toggleSeen = "on")
    /\ [][ /\ (toggleReads' # toggleReads) => (ctorPc = "start" /\ ctorPc' # "start")
           /\ (toggle' # toggle) =>
                 UNCHANGED <<cmos, session, diag, ctorVars, notifyVars, regVars,
                             handlerVars>>
         ]_vars

C15_Witness ==
    /\ toggleSeen = "on"
    /\ ~toggle
    /\ regRuns = 1
    /\ handlers[EXCEPT_IA32_PAGE_FAULT] = 1
    /\ writes = 1
    /\ hPc = "halted"

\* C16: the handler's control effects do not depend on its inputs: any two
\* invocations pass the same byte to the CMOS accessor and the same arguments
\* to ResetSystem, only the diagnostic record carries the inputs, and no step
\* of the handler changes the InterruptType or the context it was given.
C16_HandlerInputIndependent ==
    /\ [](/\ \A i, j \in 1..Len(writeLog) : writeLog[i] = writeLog[j]
          /\ \A i, j \in 1..Len(resetLog) : resetLog[i] = resetLog[j]
          /\ \A i \in 1..Len(writeLog) : writeLog[i] = CMOS_MEM_PROT_VALID_BIT_MASK
          /\ \A i \in 1..Len(resetLog) : resetLog[i] = WarmReset
          /\ (hPc \notin {"idle", "record", "halted"} =>
                 /\ Len(recordLog) = faults
                 /\ recordLog[faults] = [type |-> hType, data |-> hData]))
    /\ [][hPc \notin {"idle", "halted"} => (hType' = hType /\ hData' = hData)]_vars

C16_Witness ==
    /\ Len(recordLog) = 2
    /\ recordLog[1].data # recordLog[2].data
    /\ Len(writeLog) = 2
    /\ Len(resetLog) = 2

\* C17 (as stated): if CreateEvent fails, RegisterProtocolNotify is not
\* called with the event that was never created, and nothing is subscribed.
C17_NoSubscribeWithoutEvent ==
    (ctorStatus # "EFI_SUCCESS") => (notifyCalls = 0 /\ subscribed = "none")

\* C18: causal chain: reset requested implies the flag was written, which
\* implies the handler is installed for the page-fault vector, which implies
\* a successful locate, which implies the notification was armed with a
\* created event, which implies the toggle read true at initialization.
C18_CausalChain ==
    /\ (resetCalls > 0 => writes > 0)
    /\ (writes > 0 => (faults > 0 /\ handlers[EXCEPT_IA32_PAGE_FAULT] > 0))
    /\ (handlers[EXCEPT_IA32_PAGE_FAULT] > 0 => (regCalls > 0 /\ locateOk > 0))
    /\ (locateOk > 0 => (subscribed = "valid" /\ event = "valid" /\ cpuInstalls > 0))
    /\ (subscribed = "valid" => (ctorPc \in {"ret", "done"} /\ toggleSeen = "on"))

C18_Witness ==
    /\ session = "reset"
    /\ resetCalls = 1
    /\ writes = 1
    /\ locateOk = 1
    /\ toggleSeen = "on"

====
